---- MODULE Spec2Model ----
(***************************************************************************)
(* Model of src/chat_memory.py: the ChatMemory sliding-window buffer.      *)
(*                                                                         *)
(* A Python str is modelled as a sequence of one-character strings, so     *)
(* that split(), join() and the f-string concatenations are computed and   *)
(* not assumed.  A turn dict is a record; records handed to                *)
(* import_conversation may lack any key.  The 'timestamp' key of a turn    *)
(* (a wall-clock reading no operation ever reads back) is left out.        *)
(***************************************************************************)
EXTENDS Integers, Sequences, FiniteSets, TLC

VARIABLES
    window_size,          \* ChatMemory.window_size
    max_tokens_per_turn,  \* ChatMemory.max_tokens_per_turn
    conversation_buffer,  \* ChatMemory.conversation_buffer (deque, oldest first)
    total_turns,          \* ChatMemory.total_turns
    op,                   \* the last call made on the object: [name, args]
    ret,                  \* the value that call returned
    fresh,                \* history: no clear_memory/import_conversation since __init__
    added,                \* history: the turn dicts add_turn built while fresh
    calls,                \* history: add_turn calls since __init__ or the last
                          \* clear_memory; -1 once an import intervened
    topic_keywords,       \* ContextManager.topic_keywords (a set of str)
    inserted,             \* history: topic_keywords in order of first insertion
    hash_seed,            \* the process's str hash seed (PYTHONHASHSEED)
    pc,                   \* where ChatInterface.start_chat stands
    running,              \* ChatInterface.running
    generator,            \* ModelLoader.generator is set (the model is loaded)
    typed,                \* start_chat: user_input
    response,             \* start_chat: response
    events,               \* history: the calls made since the last input was read
    gen_failed,           \* history: the last generation failed
    cycle_start,          \* history: buffer, counter and keywords when the last
                          \* input was read
    exit_read,            \* history: /exit or the end of input has been read
    cleanups              \* history: number of _cleanup calls

topicVars == <<topic_keywords, inserted, hash_seed>>

chatVars == <<pc, running, generator, typed, response, events, gen_failed,
              cycle_start, exit_read, cleanups>>

vars == <<window_size, max_tokens_per_turn, conversation_buffer, total_turns,
          op, ret, fresh, added, calls, topicVars, chatVars>>

----------------------------------------------------------------------------
(* Bounds of the exploration *)

MaxWindow == 2      \* window_size ranges over 0..MaxWindow
MaxTokens == 2      \* max_tokens_per_turn ranges over 0..MaxTokens
MaxTurns == 3       \* add_turn is explored while total_turns < MaxTurns
MaxImportLen == 3   \* import_conversation is given lists of up to this length
MaxChunks == 4      \* update_topic_context is given this many 5-keyword inputs
MaxSeed == 1        \* hash_seed ranges over 0..MaxSeed

----------------------------------------------------------------------------
(* Strings *)

Whitespace == {" ", "\t", "\n"}

Min(a, b) == IF a <= b THEN a ELSE b
Max(a, b) == IF a >= b THEN a ELSE b

\* str.split() with no argument: maximal runs of non-whitespace characters
RECURSIVE SplitAcc(_, _, _, _)
SplitAcc(s, i, cur, acc) ==
    IF i > Len(s)
    THEN IF cur = <<>> THEN acc ELSE Append(acc, cur)
    ELSE IF s[i] \in Whitespace
         THEN SplitAcc(s, i + 1, <<>>, IF cur = <<>> THEN acc ELSE Append(acc, cur))
         ELSE SplitAcc(s, i + 1, Append(cur, s[i]), acc)

split(message) == SplitAcc(message, 1, <<>>, <<>>)

\* sep.join(parts)
RECURSIVE join(_, _)
join(sep, parts) ==
    IF parts = <<>> THEN <<>>
    ELSE IF Len(parts) = 1 THEN parts[1]
    ELSE parts[1] \o sep \o join(sep, Tail(parts))

\* seq[:n] for n >= 0
Prefix(seq, n) == SubSeq(seq, 1, Min(n, Len(seq)))

\* seq[-n:] for n >= 0; -0 is 0, so n = 0 selects the whole list
NegSlice(seq, n) ==
    IF n = 0 THEN seq
    ELSE SubSeq(seq, Max(Len(seq) - n, 0) + 1, Len(seq))

Ellipsis == <<".", ".", ".">>
HumanPrefix == <<"H", "u", "m", "a", "n", ":", " ">>
AssistantPrefix == <<"A", "s", "s", "i", "s", "t", "a", "n", "t", ":", " ">>
AssistantCue == <<"A", "s", "s", "i", "s", "t", "a", "n", "t", ":">>
NL == <<"\n">>

----------------------------------------------------------------------------
(* Inputs *)

T_empty == <<>>
T_a == <<"a">>
T_ab == <<"a", " ", "b">>
T_long == <<" ", "b", " ", " ", "a", "\t", "b">>
Hi == <<"H", "i">>

\* (user_input, bot_response) pairs given to add_turn
TurnInputs == {<<T_empty, T_a>>, <<T_long, T_a>>, <<T_ab, T_long>>, <<T_a, T_ab>>}

\* current_input values given to get_context_prompt
CurrentInputs == {Hi, T_ab, T_empty}

\* records given to import_conversation
R_plain == [user |-> T_a, bot |-> T_ab]
R_id == [turn_id |-> 7, user |-> T_ab, bot |-> T_a]
R_long == [turn_id |-> 2, user |-> T_long, bot |-> T_empty]
R_nobot == [turn_id |-> 1, user |-> T_a]
R_nouser == [bot |-> T_a]

\* every record well-formed, and some of them malformed
WellFormedCycle == <<R_plain, R_id, R_long>>
MixedCycle == <<R_nobot, R_plain, R_nouser, R_id>>

\* the list of n records that repeats cycle
Cycle(cycle, n) == [i \in 1..n |-> cycle[((i - 1) % Len(cycle)) + 1]]

\* the contiguous sub-lists of seq, the empty one included
Slices(seq) == {SubSeq(seq, i, j) : i \in 1..Len(seq), j \in 0..Len(seq)}

\* conversation_data values given to import_conversation
ImportLists ==
    Slices(Cycle(WellFormedCycle, MaxImportLen)) \cup Slices(Cycle(MixedCycle, MaxImportLen))

\* Optional[int]: None is <<>>, the integer n is <<n>>
None == <<>>
Some(n) == <<n>>

----------------------------------------------------------------------------
(* ChatMemory *)

Self == [window_size |-> window_size,
         max_tokens_per_turn |-> max_tokens_per_turn,
         conversation_buffer |-> conversation_buffer,
         total_turns |-> total_turns]

\* variant of DequeAppend: a plain list, nothing is ever evicted
DequeAppend_Unbounded(buf, x, maxlen) == Append(buf, x)

\* variant of DequeAppend: a full deque evicts from the newest end
DequeAppend_EvictsNewest(buf, x, maxlen) ==
    IF maxlen = 0 THEN buf
    ELSE IF Len(buf) = maxlen THEN Append(SubSeq(buf, 1, Len(buf) - 1), x)
    ELSE Append(buf, x)

\* deque(maxlen = n).append(x)
DequeAppend(buf, x, maxlen) ==
    IF maxlen = 0 THEN buf
    ELSE IF Len(buf) = maxlen THEN Append(Tail(buf), x)
    ELSE Append(buf, x)

\* variant of truncate_message: the comparison is >= instead of >
truncate_message_AtLimit(self, message) ==
    LET words == split(message) IN
    IF Len(words) >= self.max_tokens_per_turn
    THEN join(<<" ">>, Prefix(words, self.max_tokens_per_turn)) \o Ellipsis
    ELSE message

truncate_message(self, message) ==
    LET words == split(message) IN
    IF Len(words) > self.max_tokens_per_turn
    THEN join(<<" ">>, Prefix(words, self.max_tokens_per_turn)) \o Ellipsis
    ELSE message

\* variant of NewTurn: the turn is numbered by its place in the buffer
NewTurn_NumbersByLength(self, user_input, bot_response) ==
    [turn_id |-> Len(self.conversation_buffer) + 1,
     user |-> truncate_message(self, user_input),
     bot |-> truncate_message(self, bot_response)]

\* the dict add_turn builds
NewTurn(self, user_input, bot_response) ==
    [turn_id |-> self.total_turns + 1,
     user |-> truncate_message(self, user_input),
     bot |-> truncate_message(self, bot_response)]

\* variant of add_turn: the counter follows the number of retained turns
add_turn_CountsRetained(self, user_input, bot_response) ==
    LET buf == DequeAppend(self.conversation_buffer,
                           NewTurn(self, user_input, bot_response), self.window_size)
    IN [self EXCEPT !.conversation_buffer = buf, !.total_turns = Len(buf)]

add_turn(self, user_input, bot_response) ==
    [self EXCEPT
        !.conversation_buffer =
            DequeAppend(@, NewTurn(self, user_input, bot_response), self.window_size),
        !.total_turns = @ + 1]

\* variant of clear_memory: the counter is not reset
clear_memory_KeepsCount(self) ==
    [self EXCEPT !.conversation_buffer = <<>>]

clear_memory(self) ==
    [self EXCEPT !.conversation_buffer = <<>>, !.total_turns = 0]

\* the list the for-loop of get_context_prompt builds
RECURSIVE ContextParts(_)
ContextParts(buf) ==
    IF buf = <<>> THEN <<>>
    ELSE <<HumanPrefix \o buf[1].user, AssistantPrefix \o buf[1].bot>>
         \o ContextParts(Tail(buf))

\* variant of get_context_prompt: no empty-buffer case, and the cue line
\* carries the space of the "Assistant: " prefix
get_context_prompt_CueWithSpace(self, current_input) ==
    join(NL, ContextParts(self.conversation_buffer)
             \o <<HumanPrefix \o current_input, AssistantPrefix>>)

get_context_prompt(self, current_input) ==
    IF self.conversation_buffer = <<>>
    THEN HumanPrefix \o current_input \o NL \o AssistantCue
    ELSE join(NL, ContextParts(self.conversation_buffer)
                  \o <<HumanPrefix \o current_input, AssistantCue>>)

get_recent_context(self, num_turns) ==
    LET n == IF num_turns = None THEN Len(self.conversation_buffer) ELSE num_turns[1]
    IN NegSlice(self.conversation_buffer, n)

get_memory_stats(self) ==
    [total_turns |-> self.total_turns,
     current_buffer_size |-> Len(self.conversation_buffer),
     max_buffer_size |-> self.window_size,
     buffer_full |-> (Len(self.conversation_buffer) = self.window_size)]

export_conversation(self) == self.conversation_buffer

\* variant of ImportLoop: no test for the 'user' and 'bot' keys
RECURSIVE ImportLoop_NoCheck(_, _)
ImportLoop_NoCheck(self, turns) ==
    IF turns = <<>> THEN self
    ELSE ImportLoop_NoCheck([self EXCEPT
                               !.conversation_buffer = DequeAppend(@, turns[1], self.window_size),
                               !.total_turns = @ + 1],
                            Tail(turns))

\* variant of ImportLoop: a skipped record is still counted
RECURSIVE ImportLoop_CountsSkipped(_, _)
ImportLoop_CountsSkipped(self, turns) ==
    IF turns = <<>> THEN self
    ELSE LET turn == turns[1] IN
         IF "user" \in DOMAIN turn /\ "bot" \in DOMAIN turn
         THEN ImportLoop_CountsSkipped([self EXCEPT
                            !.conversation_buffer = DequeAppend(@, turn, self.window_size),
                            !.total_turns = @ + 1],
                         Tail(turns))
         ELSE ImportLoop_CountsSkipped([self EXCEPT !.total_turns = @ + 1], Tail(turns))

\* the for-loop of import_conversation over the sliced list
RECURSIVE ImportLoop(_, _)
ImportLoop(self, turns) ==
    IF turns = <<>> THEN self
    ELSE LET turn == turns[1] IN
         IF "user" \in DOMAIN turn /\ "bot" \in DOMAIN turn
         THEN ImportLoop([self EXCEPT
                            !.conversation_buffer = DequeAppend(@, turn, self.window_size),
                            !.total_turns = @ + 1],
                         Tail(turns))
         ELSE ImportLoop(self, Tail(turns))

\* variant of import_conversation: the buffer is not cleared first
import_conversation_NoClear(self, conversation_data) ==
    ImportLoop(self, NegSlice(conversation_data, self.window_size))

import_conversation(self, conversation_data) ==
    ImportLoop(clear_memory(self), NegSlice(conversation_data, self.window_size))

----------------------------------------------------------------------------
(* ContextManager *)

TopicLimit == 20     \* update_topic_context: len(self.topic_keywords) > 20
TopicKeep == 15      \* update_topic_context: [-15:]
KeywordCap == 5      \* _extract_keywords: keywords[:5]
MinWordLen == 3      \* _extract_keywords: len(word) > 3
DefaultWindow == 5   \* ChatMemory.__init__: window_size=5
DefaultTokens == 100 \* ChatMemory.__init__: max_tokens_per_turn=100

UpperCase == <<"A", "B", "C", "D", "E", "F", "G", "H", "I", "J", "K", "L", "M",
               "N", "O", "P", "Q", "R", "S", "T", "U", "V", "W", "X", "Y", "Z">>
LowerCase == <<"a", "b", "c", "d", "e", "f", "g", "h", "i", "j", "k", "l", "m",
               "n", "o", "p", "q", "r", "s", "t", "u", "v", "w", "x", "y", "z">>

\* str.lower()
lower(text) ==
    [i \in 1..Len(text) |->
        IF \E k \in 1..Len(UpperCase) : UpperCase[k] = text[i]
        THEN LowerCase[CHOOSE k \in 1..Len(UpperCase) : UpperCase[k] = text[i]]
        ELSE text[i]]

\* the characters of word.strip('.,!?;:"()[]')
StripChars == {".", ",", "!", "?", ";", ":", "\"", "(", ")", "[", "]"}

\* str.strip(chars): leading and trailing characters of the set removed
strip(word) ==
    LET keep == {i \in 1..Len(word) : word[i] \notin StripChars} IN
    IF keep = {} THEN <<>>
    ELSE SubSeq(word, CHOOSE i \in keep : \A j \in keep : i <= j,
                      CHOOSE i \in keep : \A j \in keep : i >= j)

stop_words ==
    {<<"t", "h", "e">>, <<"a">>, <<"a", "n">>, <<"a", "n", "d">>,
     <<"o", "r">>, <<"b", "u", "t">>, <<"i", "n">>, <<"o", "n">>,
     <<"a", "t">>, <<"t", "o">>, <<"f", "o", "r">>, <<"o", "f">>,
     <<"w", "i", "t", "h">>, <<"b", "y">>, <<"i", "s">>, <<"a", "r", "e">>,
     <<"w", "a", "s">>, <<"w", "e", "r", "e">>, <<"b", "e">>,
     <<"b", "e", "e", "n">>, <<"b", "e", "i", "n", "g">>,
     <<"h", "a", "v", "e">>, <<"h", "a", "s">>, <<"h", "a", "d">>,
     <<"d", "o">>, <<"d", "o", "e", "s">>, <<"d", "i", "d">>,
     <<"w", "i", "l", "l">>, <<"w", "o", "u", "l", "d">>,
     <<"c", "o", "u", "l", "d">>, <<"s", "h", "o", "u", "l", "d">>}

\* the list comprehension of _extract_keywords: the tests are made on the
\* word as split, the strip is applied to what passes
RECURSIVE Comprehension(_)
Comprehension(words) ==
    IF words = <<>> THEN <<>>
    ELSE LET word == words[1] IN
         (IF Len(word) > MinWordLen /\ word \notin stop_words
          THEN <<strip(word)>> ELSE <<>>)
         \o Comprehension(Tail(words))

extract_keywords(text) ==
    Prefix(Comprehension(split(lower(text))), KeywordCap)

\* the elements of a list, as a set
Range(seq) == UNION {{s[i] : i \in 1..Len(s)} : s \in {seq}}

CharCodes == LowerCase \o UpperCase
            \o <<".", ",", "!", "?", ";", ":", "\"", "(", ")", "[", "]", "'", " ">>

CharCode(c) ==
    IF \E k \in 1..Len(CharCodes) : CharCodes[k] = c
    THEN CHOOSE k \in 1..Len(CharCodes) : CharCodes[k] = c
    ELSE 0

\* stand-in for hash(word) in a process whose str hashes are seeded with
\* seed: some number that depends on the characters and on the seed
RECURSIVE HashFrom(_, _, _, _)
HashFrom(word, i, h, modulus) ==
    IF i > Len(word) THEN h
    ELSE HashFrom(word, i + 1, (h * 31 + CharCode(word[i])) % modulus, modulus)

HashOf(word, seed) == HashFrom(word, 1, 7 * seed + 1, 1009 - 12 * seed)

\* <<hash, tie-break, word>> for every word of S
Hashed(S, seed) == {<<HashOf(w, seed), HashFrom(w, 1, 3, 997), w>> : w \in S}

HashBefore(p, q) == p[1] < q[1] \/ (p[1] = q[1] /\ p[2] < q[2])

\* list(a_set): the elements in the order of their hashes, an order that
\* owes nothing to the order of insertion
ListOfSet(S, seed) ==
    CHOOSE list \in
        {[n \in 1..Cardinality(H) |->
            (CHOOSE p \in H : Cardinality({q \in H : HashBefore(q, p)}) = n - 1)[3]]
         : H \in {Hashed(S, seed)}} : TRUE

\* variant of update_topic_context: the trim keeps 20 keywords
update_topic_context_KeepsLimit(keywords_set, seed, user_input, bot_response) ==
    LET keywords == extract_keywords(user_input \o <<" ">> \o bot_response)
        Trimmed(merged) ==
            IF Cardinality(merged) > TopicLimit
            THEN Range(NegSlice(ListOfSet(merged, seed), TopicLimit))
            ELSE merged
    IN UNION {Trimmed(merged) : merged \in {keywords_set \cup Range(keywords)}}

update_topic_context(keywords_set, seed, user_input, bot_response) ==
    LET keywords == extract_keywords(user_input \o <<" ">> \o bot_response)
        Trimmed(merged) ==
            IF Cardinality(merged) > TopicLimit
            THEN Range(NegSlice(ListOfSet(merged, seed), TopicKeep))
            ELSE merged
    IN UNION {Trimmed(merged) : merged \in {keywords_set \cup Range(keywords)}}

----------------------------------------------------------------------------
(* Calls *)

\* no ChatInterface: the objects are driven directly
NoChat ==
    /\ pc = "none"
    /\ running = FALSE
    /\ generator = FALSE
    /\ typed = <<>>
    /\ response = <<>>
    /\ events = <<>>
    /\ gen_failed = FALSE
    /\ cycle_start = <<>>
    /\ exit_read = FALSE
    /\ cleanups = 0

Init ==
    /\ window_size \in 0..MaxWindow
    /\ max_tokens_per_turn \in 0..MaxTokens
    /\ conversation_buffer = <<>>
    /\ total_turns = 0
    /\ op = [name |-> "__init__", args |-> <<>>]
    /\ ret = None
    /\ fresh = TRUE
    /\ added = <<>>
    /\ calls = 0
    /\ topic_keywords = {}
    /\ inserted = <<>>
    /\ hash_seed = 0
    /\ NoChat

Params == <<window_size, max_tokens_per_turn>>

Commit(s) ==
    /\ conversation_buffer' = s.conversation_buffer
    /\ total_turns' = s.total_turns
    /\ UNCHANGED Params
    /\ UNCHANGED <<topicVars, chatVars>>

AddTurn ==
    \E io \in TurnInputs :
        /\ total_turns < MaxTurns
        /\ Commit(add_turn(Self, io[1], io[2]))
        /\ op' = [name |-> "add_turn", args |-> io]
        /\ ret' = None
        /\ fresh' = fresh
        /\ added' = IF fresh THEN Append(added, NewTurn(Self, io[1], io[2])) ELSE added
        /\ calls' = IF calls >= 0 THEN calls + 1 ELSE calls

ClearMemory ==
    /\ Commit(clear_memory(Self))
    /\ op' = [name |-> "clear_memory", args |-> <<>>]
    /\ ret' = None
    /\ fresh' = FALSE
    /\ added' = <<>>
    /\ calls' = 0

Import(data) ==
    /\ Commit(import_conversation(Self, data))
    /\ op' = [name |-> "import_conversation", args |-> <<data>>]
    /\ ret' = None
    /\ fresh' = FALSE
    /\ added' = <<>>
    /\ calls' = -1

ImportConversation == \E data \in ImportLists : Import(data)

\* import_conversation(export_conversation())
RoundTrip == Import(export_conversation(Self))

Query(name, args, value) ==
    /\ op' = [name |-> name, args |-> args]
    /\ ret' = value
    /\ UNCHANGED <<window_size, max_tokens_per_turn, conversation_buffer,
                   total_turns, fresh, added, calls>>
    /\ UNCHANGED <<topicVars, chatVars>>

GetContextPrompt ==
    \E current_input \in CurrentInputs :
        Query("get_context_prompt", <<current_input>>,
              get_context_prompt(Self, current_input))

GetRecentContext ==
    \E num_turns \in {None} \cup {Some(n) : n \in 0..(window_size + 1)} :
        Query("get_recent_context", <<num_turns>>,
              get_recent_context(Self, num_turns))

\* args records the call that came just before
GetMemoryStats ==
    Query("get_memory_stats", <<op.name>>, get_memory_stats(Self))

ExportConversation ==
    Query("export_conversation", <<>>, export_conversation(Self))

Next ==
    \/ AddTurn
    \/ ClearMemory
    \/ ImportConversation
    \/ RoundTrip
    \/ GetContextPrompt
    \/ GetRecentContext
    \/ GetMemoryStats
    \/ ExportConversation

Spec == Init /\ [][Next]_vars

----------------------------------------------------------------------------
(* ContextManager calls *)

\* the n-th of the distinct keywords given to update_topic_context
Keyword(n) ==
    <<"t", "o", "p", "i", "c">>
    \o <<LowerCase[((n - 1) \div 5) + 1], LowerCase[((n - 1) % 5) + 1]>>

KeywordText(from, to) == join(<<" ">>, [i \in 1..(to - from + 1) |-> Keyword(from + i - 1)])

\* (user_input, bot_response) with the keywords 5k-4..5k+1, three and three:
\* six words pass the tests, one more than keywords[:5] keeps
Chunk(k) == <<KeywordText(5 * k - 4, 5 * k - 2), KeywordText(5 * k - 1, 5 * k + 1)>>

\* "The. and (Hello) !!!!" and "a... Should, was"
PunctuatedInput ==
    <<<<"T", "h", "e", ".", " ", "a", "n", "d", " ", "(", "H", "e", "l", "l", "o", ")",
        " ", "!", "!", "!", "!">>,
      <<"a", ".", ".", ".", " ", "S", "h", "o", "u", "l", "d", ",", " ", "w", "a", "s">>>>

ObserveInputs == {Chunk(k) : k \in 1..MaxChunks} \cup {PunctuatedInput}

\* seq followed by the elements of keywords it does not hold yet, in order
\* of first occurrence
AppendNew(seq, keywords) ==
    LET held == Range(seq)
        first == {i \in 1..Len(keywords) :
                     /\ keywords[i] \notin held
                     /\ \A j \in 1..(i - 1) : keywords[j] # keywords[i]}
    IN seq \o [n \in 1..Cardinality(first) |->
                 keywords[CHOOSE i \in first : Cardinality({j \in first : j <= i}) = n]]

InTopicKeywordsNext(k) == k \in topic_keywords'

InitTopics ==
    /\ window_size = DefaultWindow
    /\ max_tokens_per_turn = DefaultTokens
    /\ conversation_buffer = <<>>
    /\ total_turns = 0
    /\ op = [name |-> "__init__", args |-> <<>>]
    /\ ret = None
    /\ fresh = TRUE
    /\ added = <<>>
    /\ calls = 0
    /\ topic_keywords = {}
    /\ inserted = <<>>
    /\ hash_seed \in 0..MaxSeed
    /\ NoChat

UpdateTopicContext ==
    \E io \in ObserveInputs :
      \E keywords \in {extract_keywords(io[1] \o <<" ">> \o io[2])} :
        /\ topic_keywords' = update_topic_context(topic_keywords, hash_seed, io[1], io[2])
        /\ inserted' = SelectSeq(AppendNew(inserted, keywords), InTopicKeywordsNext)
        /\ op' = [name |-> "update_topic_context", args |-> io]
        /\ ret' = None
        /\ UNCHANGED <<window_size, max_tokens_per_turn, conversation_buffer,
                       total_turns, fresh, added, calls, hash_seed>>
        /\ UNCHANGED chatVars

NextTopics == UpdateTopicContext

SpecTopics == InitTopics /\ [][NextTopics]_vars

----------------------------------------------------------------------------
(* ChatInterface (src/interface.py) and ModelLoader.generate_response *)

\* str.strip(): leading and trailing whitespace removed
strip_whitespace(line) ==
    LET keep == {i \in 1..Len(line) : line[i] \notin Whitespace} IN
    IF keep = {} THEN <<>>
    ELSE SubSeq(line, CHOOSE i \in keep : \A j \in keep : i <= j,
                      CHOOSE i \in keep : \A j \in keep : i >= j)

CmdExit == <<"/", "e", "x", "i", "t">>
CmdClear == <<"/", "c", "l", "e", "a", "r">>
CmdStats == <<"/", "s", "t", "a", "t", "s">>
CmdHelp == <<"/", "h", "e", "l", "p">>

\* the lines typed at the prompt
L_hello == <<"h", "e", "l", "l", "o", " ", "t", "h", "e", "r", "e">>
L_hello_padded == <<" ">> \o L_hello \o <<" ", "\t">>
L_exit_padded == <<" ", "/", "E", "X", "I", "T", " ">>
L_unknown == <<"/", "f", "o", "o">>

InputLines == {L_hello, L_hello_padded, CmdExit, L_exit_padded, CmdClear, CmdStats,
               CmdHelp, L_unknown}

\* what the generator answers, once cleaned
GeneratedTexts == {<<"S", "u", "r", "e", ".">>}

\* ModelLoader.generate_response: the text returned when the generator raises
SorryText ==
    <<"S", "o", "r", "r", "y", ",", " ", "I", " ", "e", "n", "c", "o", "u",
      "n", "t", "e", "r", "e", "d", " ", "a", "n", " ", "e", "r", "r", "o",
      "r", " ", "w", "h", "i", "l", "e", " ", "g", "e", "n", "e", "r", "a",
      "t", "i", "n", "g", " ", "a", " ", "r", "e", "s", "p", "o", "n", "s",
      "e", ".">>

\* ChatInterface._generate_response: the text returned when generate_response raises
ApologyText ==
    <<"I", " ", "a", "p", "o", "l", "o", "g", "i", "z", "e", ",", " ", "b",
      "u", "t", " ", "I", " ", "e", "n", "c", "o", "u", "n", "t", "e", "r",
      "e", "d", " ", "a", "n", " ", "e", "r", "r", "o", "r", " ", "w", "h",
      "i", "l", "e", " ", "g", "e", "n", "e", "r", "a", "t", "i", "n", "g",
      " ", "a", " ", "r", "e", "s", "p", "o", "n", "s", "e", ".", " ", "P",
      "l", "e", "a", "s", "e", " ", "t", "r", "y", " ", "a", "g", "a", "i",
      "n", ".">>

\* variant of IsCommand: only the four known commands are commands
IsCommand_KnownOnly(input) == lower(input) \in {CmdExit, CmdClear, CmdStats, CmdHelp}

\* _handle_special_commands: user_input.startswith('/')
IsCommand(input) == Len(input) > 0 /\ input[1] = "/"

\* variant of handle_exit: self.running is left as it is
handle_exit_KeepsRunning(is_running) == is_running

\* _handle_exit: the value given to self.running
handle_exit(is_running) == FALSE

\* ModelLoader.generate_response: outcome is "ok" or "raises" (the generator
\* call), text is what the generator produced
generate_response(has_generator, outcome, text) ==
    IF ~has_generator THEN [raised |-> TRUE, value |-> <<>>]
    ELSE IF outcome = "raises" THEN [raised |-> FALSE, value |-> SorryText]
    ELSE [raised |-> FALSE, value |-> text]

\* ChatInterface._generate_response
chat_generate_response(has_generator, outcome, text) ==
    LET r == generate_response(has_generator, outcome, text) IN
    IF r.raised THEN ApologyText ELSE r.value

MemoryNow == <<conversation_buffer, total_turns, topic_keywords>>

ChatHistoryVars == <<op, ret, fresh, added, calls>>

InitChat ==
    /\ window_size \in 0..MaxWindow
    /\ max_tokens_per_turn = DefaultTokens
    /\ conversation_buffer = <<>>
    /\ total_turns = 0
    /\ op = [name |-> "__init__", args |-> <<>>]
    /\ ret = None
    /\ fresh = TRUE
    /\ added = <<>>
    /\ calls = 0
    /\ topic_keywords = {}
    /\ inserted = <<>>
    /\ hash_seed = 0
    /\ pc = "initialize"
    /\ running = FALSE
    /\ generator = FALSE
    /\ typed = <<>>
    /\ response = <<>>
    /\ events = <<>>
    /\ gen_failed = FALSE
    /\ cycle_start = <<>>
    /\ exit_read = FALSE
    /\ cleanups = 0

\* start_chat up to the loop: initialize() loads the model or fails
Initialize ==
    /\ pc = "initialize"
    /\ \E loaded \in BOOLEAN :
        /\ generator' = loaded
        /\ running' = loaded
        /\ pc' = IF loaded THEN "while" ELSE "returned"
    /\ UNCHANGED <<Params, conversation_buffer, total_turns, ChatHistoryVars, topicVars,
                   typed, response, events, gen_failed, cycle_start, exit_read,
                   cleanups>>

\* while self.running
WhileRunning ==
    /\ pc = "while"
    /\ pc' = IF running THEN "input" ELSE "cleanup"
    /\ UNCHANGED <<Params, conversation_buffer, total_turns, ChatHistoryVars, topicVars,
                   running, generator, typed, response, events, gen_failed,
                   cycle_start, exit_read, cleanups>>

\* _get_user_input: a line, stripped, or None at the end of input
GetUserInput ==
    /\ pc = "input"
    /\ \/ \E line \in InputLines :
            /\ IsCommand(strip_whitespace(line)) \/ total_turns < MaxTurns
            /\ typed' = strip_whitespace(line)
            /\ exit_read' = (lower(strip_whitespace(line)) = CmdExit)
            /\ pc' = "command"
       \/ /\ typed' = typed
          /\ exit_read' = TRUE
          /\ pc' = "cleanup"
    /\ events' = <<>>
    /\ gen_failed' = FALSE
    /\ cycle_start' = MemoryNow
    /\ UNCHANGED <<Params, conversation_buffer, total_turns, ChatHistoryVars, topicVars,
                   running, generator, response, cleanups>>

\* _handle_special_commands, and the continue that follows a command
HandleSpecialCommands ==
    /\ pc = "command"
    /\ LET command == lower(strip_whitespace(typed))
           cleared == clear_memory(Self)
       IN IF ~IsCommand(typed)
          THEN /\ pc' = "generate"
               /\ UNCHANGED <<conversation_buffer, total_turns, running, events>>
          ELSE /\ pc' = "while"
               /\ running' = IF command = CmdExit THEN handle_exit(running) ELSE running
               /\ conversation_buffer' = IF command = CmdClear
                                         THEN cleared.conversation_buffer
                                         ELSE conversation_buffer
               /\ total_turns' = IF command = CmdClear THEN cleared.total_turns
                                 ELSE total_turns
               /\ events' = IF command = CmdExit THEN <<"get_memory_stats">>
                            ELSE IF command = CmdClear THEN <<"clear_memory">>
                            ELSE IF command = CmdStats
                                 THEN <<"get_memory_stats", "get_recent_context">>
                                      \o (IF get_recent_context(Self, Some(3)) # <<>>
                                          THEN <<"get_topic_context">> ELSE <<>>)
                            ELSE <<>>
    /\ UNCHANGED <<Params, ChatHistoryVars, topicVars, generator, typed, response,
                   gen_failed, cycle_start, exit_read, cleanups>>

\* _generate_response: the prompt is rendered, then the model is asked
GenerateResponse ==
    /\ pc = "generate"
    /\ \E outcome \in {"ok", "raises"}, text \in GeneratedTexts :
        /\ response' = chat_generate_response(generator, outcome, text)
        /\ gen_failed' = (~generator \/ outcome = "raises")
    /\ ret' = get_context_prompt(Self, typed)
    /\ op' = [name |-> "get_context_prompt", args |-> <<typed>>]
    /\ events' = events \o <<"get_context_prompt", "generate_response">>
    /\ pc' = "add_turn"
    /\ UNCHANGED <<Params, conversation_buffer, total_turns, fresh, added, calls,
                   topicVars, running, generator, typed, cycle_start, exit_read,
                   cleanups>>

\* _display_response and self.memory.add_turn(user_input, response)
ChatAddTurn ==
    /\ pc = "add_turn"
    /\ LET s == add_turn(Self, typed, response) IN
        /\ conversation_buffer' = s.conversation_buffer
        /\ total_turns' = s.total_turns
    /\ events' = Append(events, "add_turn")
    /\ pc' = "observe"
    /\ UNCHANGED <<Params, ChatHistoryVars, topicVars, running, generator, typed,
                   response, gen_failed, cycle_start, exit_read, cleanups>>

\* self.context_manager.update_topic_context(user_input, response)
ChatObserve ==
    /\ pc = "observe"
    /\ topic_keywords' = update_topic_context(topic_keywords, hash_seed, typed, response)
    /\ \E keywords \in {extract_keywords(typed \o <<" ">> \o response)} :
          inserted' = SelectSeq(AppendNew(inserted, keywords), InTopicKeywordsNext)
    /\ events' = Append(events, "update_topic_context")
    /\ pc' = "while"
    /\ UNCHANGED <<Params, conversation_buffer, total_turns, ChatHistoryVars, hash_seed,
                   running, generator, typed, response, gen_failed, cycle_start,
                   exit_read, cleanups>>

\* finally: self._cleanup()
Cleanup ==
    /\ pc = "cleanup"
    /\ cleanups' = cleanups + 1
    /\ pc' = "returned"
    /\ UNCHANGED <<Params, conversation_buffer, total_turns, ChatHistoryVars, topicVars,
                   running, generator, typed, response, events, gen_failed,
                   cycle_start, exit_read>>

\* SIGINT: _signal_handler runs _handle_exit between two steps of the loop
SignalHandler ==
    /\ pc \in {"while", "input", "command", "generate", "add_turn", "observe"}
    /\ running
    /\ running' = handle_exit(running)
    /\ UNCHANGED <<Params, conversation_buffer, total_turns, ChatHistoryVars, topicVars,
                   pc, generator, typed, response, events, gen_failed, cycle_start,
                   exit_read, cleanups>>

NextChat ==
    \/ Initialize
    \/ WhileRunning
    \/ GetUserInput
    \/ HandleSpecialCommands
    \/ GenerateResponse
    \/ ChatAddTurn
    \/ ChatObserve
    \/ Cleanup
    \/ SignalHandler

SpecChat == InitChat /\ [][NextChat]_vars

\* the interpreter keeps running the loop; only the read of a line waits
FairSpecChat ==
    /\ SpecChat
    /\ WF_vars(WhileRunning) /\ WF_vars(HandleSpecialCommands) /\ WF_vars(Cleanup)

----------------------------------------------------------------------------
(* Vocabulary of the properties, defined by position and independent of    *)
(* the operators above                                                     *)

Buf == conversation_buffer

\* the last k elements of seq, in order (0 <= k <= Len(seq))
LastOf(seq, k) == [i \in 1..k |-> seq[Len(seq) - k + i]]

\* the sequences of lines joined by single sep, nothing after the last one
RECURSIVE ConcatFrom(_, _, _)
ConcatFrom(lines, sep, i) ==
    IF i > Len(lines) THEN <<>>
    ELSE IF i = Len(lines) THEN lines[i]
    ELSE lines[i] \o sep \o ConcatFrom(lines, sep, i + 1)

WordStarts(s) ==
    {i \in 1..Len(s) : s[i] \notin Whitespace /\ (i = 1 \/ s[i - 1] \in Whitespace)}

NumWords(s) == Cardinality(WordStarts(s))

\* the word of s that starts at position i
WordAt(s, i) ==
    LET e == CHOOSE j \in i..Len(s) :
                 /\ \A k \in i..j : s[k] \notin Whitespace
                 /\ (j = Len(s) \/ s[j + 1] \in Whitespace)
    IN SubSeq(s, i, e)

\* the position where the k-th word of s starts
KthStart(s, k) ==
    CHOOSE i \in WordStarts(s) : Cardinality({j \in WordStarts(s) : j <= i}) = k

FirstWords(s, n) == [k \in 1..n |-> WordAt(s, KthStart(s, k))]

\* what a text given to add_turn is to be stored as, under a word limit
ExpectedStored(s, limit) ==
    IF NumWords(s) > limit
    THEN ConcatFrom(FirstWords(s, limit), <<" ">>, 1) \o Ellipsis
    ELSE s

\* the i-th of the 2k+2 lines of the prompt for buffer buf and input
ExpectedLine(buf, input, i) ==
    IF i = 2 * Len(buf) + 2 THEN AssistantCue
    ELSE IF i = 2 * Len(buf) + 1 THEN HumanPrefix \o input
    ELSE IF i % 2 = 1 THEN HumanPrefix \o buf[(i + 1) \div 2].user
    ELSE AssistantPrefix \o buf[i \div 2].bot

ExpectedPrompt(buf, input) ==
    ConcatFrom([i \in 1..(2 * Len(buf) + 2) |-> ExpectedLine(buf, input, i)], NL, 1)

\* the text contents of a buffer, in order
Contents(buf) == [i \in 1..Len(buf) |-> <<buf[i].user, buf[i].bot>>]

WellFormed(turn) == "user" \in DOMAIN turn /\ "bot" \in DOMAIN turn

----------------------------------------------------------------------------
(* C1: the number of retained turns never exceeds the capacity, and the    *)
(* capacity never changes after construction.                              *)
C1_LengthAtMostCapacity ==
    /\ [](Len(Buf) <= window_size)
    /\ [][window_size' = window_size]_vars

\* an add_turn that overflowed a non-empty window
C1_Witness ==
    /\ op.name = "add_turn"
    /\ window_size > 0
    /\ Len(Buf) = window_size
    /\ total_turns > window_size

(* C2: on a buffer that has only seen add_turn calls, the retained         *)
(* sequence is the last min(N, C) turns added, oldest first; an            *)
(* overflowing add_turn removes the oldest retained turn.                  *)
C2_LastTurnsRetained ==
    /\ [](fresh => Buf = LastOf(added, Min(Len(added), window_size)))
    /\ [][(op'.name = "add_turn" /\ window_size > 0 /\ Len(Buf) = window_size)
            => LastOf(Buf, window_size - 1) = SubSeq(Buf', 1, window_size - 1)]_vars

\* three turns added to a fresh window of two
C2_Witness ==
    /\ fresh
    /\ window_size = 2
    /\ Len(added) = 3
    /\ Buf = <<added[2], added[3]>>

(* C3: after N add_turn calls with no clear or import in between,          *)
(* total_turns is N, evictions or not; every add_turn adds exactly 1.      *)
C3_TotalCountsAdds ==
    /\ [](calls >= 0 => total_turns = calls)
    /\ [][op'.name = "add_turn" => total_turns' = total_turns + 1]_vars

\* more add_turn calls than the window holds
C3_Witness ==
    /\ op.name = "add_turn"
    /\ window_size > 0
    /\ calls > window_size
    /\ total_turns = calls

(* C4: get_context_prompt returns the 2k+2 lines "Human: <user>",          *)
(* "Assistant: <bot>" per retained turn, then "Human: <input>" and         *)
(* "Assistant:", joined by single newlines with no trailing newline; the   *)
(* empty buffer with input "Hi" gives "Human: Hi\nAssistant:"; the buffer  *)
(* and the counter are left unchanged.                                     *)
C4_PromptShape ==
    /\ [](op.name = "get_context_prompt"
            => ret = ExpectedPrompt(Buf, op.args[1]))
    /\ []((op.name = "get_context_prompt" /\ Buf = <<>> /\ op.args[1] = Hi)
            => ret = <<"H", "u", "m", "a", "n", ":", " ", "H", "i", "\n",
                       "A", "s", "s", "i", "s", "t", "a", "n", "t", ":">>)
    /\ [][op'.name = "get_context_prompt"
            => UNCHANGED <<conversation_buffer, total_turns>>]_vars

\* a prompt rendered over two retained turns
C4_Witness ==
    /\ op.name = "get_context_prompt"
    /\ Len(Buf) = 2
    /\ op.args[1] = T_ab
    /\ Len(ret) > Len(HumanPrefix \o T_ab \o NL \o AssistantCue)

(* C5: add_turn stores each of the two texts as its first                  *)
(* max_tokens_per_turn words followed by "..." when it has more words      *)
(* than that, and unchanged otherwise; the two are truncated               *)
(* independently.                                                          *)
C5_TruncatesEachText ==
    (op.name = "add_turn" /\ window_size > 0)
        => /\ Buf[Len(Buf)].user = ExpectedStored(op.args[1], max_tokens_per_turn)
           /\ Buf[Len(Buf)].bot = ExpectedStored(op.args[2], max_tokens_per_turn)

\* a long user text truncated next to a short bot text stored as given
C5_Witness ==
    /\ op.name = "add_turn"
    /\ window_size > 0
    /\ max_tokens_per_turn > 0
    /\ NumWords(op.args[1]) > max_tokens_per_turn
    /\ NumWords(op.args[2]) <= max_tokens_per_turn
    /\ Buf[Len(Buf)].user # op.args[1]
    /\ Buf[Len(Buf)].bot = op.args[2]

(* C6: import_conversation of L well-formed records leaves exactly the     *)
(* last min(L, C) of them in the buffer, in order, and total_turns equal   *)
(* to min(L, C).                                                           *)
C6_ImportKeepsLastMin ==
    (op.name = "import_conversation" /\ \A i \in 1..Len(op.args[1]) : WellFormed(op.args[1][i]))
        => LET k == Min(Len(op.args[1]), window_size) IN
           /\ Buf = LastOf(op.args[1], k)
           /\ total_turns = k

(* C7: import_conversation gives the k records it imports the sequence     *)
(* numbers 1..k, whatever numbers they carried, so retained sequence       *)
(* numbers are strictly increasing and the next add_turn gets k+1.         *)
C7_ImportRenumbers ==
    op.name = "import_conversation"
        => \A i \in 1..Len(Buf) :
               "turn_id" \in DOMAIN Buf[i] /\ Buf[i].turn_id = i

(* C8: get_recent_context(n) returns the last min(n, m) retained turns in  *)
(* storage order for every n >= 0, and all m turns when n is omitted.      *)
C8_RecentReturnsLastMin ==
    op.name = "get_recent_context"
        => ret = LastOf(Buf, IF op.args[1] = None THEN Len(Buf)
                             ELSE Min(op.args[1][1], Len(Buf)))

(* C9: import_conversation(export_conversation()) leaves the retained      *)
(* user/bot texts, their order and the length unchanged, and a second      *)
(* round trip changes nothing more.                                        *)
C9_RoundTrip ==
    [][(op'.name = "import_conversation" /\ op'.args[1] = export_conversation(Self))
         => /\ Contents(Buf') = Contents(Buf)
            /\ Len(Buf') = Len(Buf)
            /\ import_conversation(Self', export_conversation(Self')) = Self']_vars

\* a round trip of a window holding the turns numbered 2 and 3
C9_Witness ==
    /\ op.name = "import_conversation"
    /\ op.args[1] = Buf
    /\ Len(Buf) = 2
    /\ "turn_id" \in DOMAIN Buf[2]
    /\ Buf[2].turn_id = 3
    /\ total_turns = 2

(* C10 as stated: clear_memory followed by get_memory_stats reports        *)
(* total_turns 0, current size 0 and buffer_full false, the capacity       *)
(* unchanged.                                                              *)
C10_ClearThenStatsNotFull ==
    (op.name = "get_memory_stats" /\ op.args[1] = "clear_memory")
        => /\ ret.total_turns = 0
           /\ ret.current_buffer_size = 0
           /\ ret.max_buffer_size = window_size
           /\ ret.buffer_full = FALSE

(* C10 amended: clear_memory followed by get_memory_stats reports          *)
(* total_turns 0, current size 0, the capacity unchanged, and buffer_full  *)
(* false when the capacity is at least 1 (true when it is 0); in every     *)
(* state buffer_full is reported exactly when the current size equals the  *)
(* capacity.                                                               *)
C10_ClearThenStats ==
    /\ (op.name = "get_memory_stats" /\ op.args[1] = "clear_memory")
          => /\ ret.total_turns = 0
             /\ ret.current_buffer_size = 0
             /\ ret.max_buffer_size = window_size
             /\ ret.buffer_full = (window_size = 0)
    /\ op.name = "get_memory_stats"
          => /\ ret.current_buffer_size = Len(Buf)
             /\ ret.max_buffer_size = window_size
             /\ ret.buffer_full = (ret.current_buffer_size = ret.max_buffer_size)

\* statistics read right after a clear of a window of two
C10_Witness ==
    /\ op.name = "get_memory_stats"
    /\ op.args[1] = "clear_memory"
    /\ window_size = 2
    /\ ret.buffer_full = FALSE

(* C11: import_conversation skips a record that lacks 'user' or 'bot': it  *)
(* is neither stored nor counted, while every well-formed record among the *)
(* last window_size records of the list is stored and counted; the buffer  *)
(* is left within its capacity.                                            *)
C11_ImportSkipsMalformed ==
    op.name = "import_conversation"
        => LET data == op.args[1]
               kept == SelectSeq(LastOf(data, Min(Len(data), window_size)), WellFormed)
           IN /\ Buf = kept
              /\ \A i \in 1..Len(Buf) : WellFormed(Buf[i])
              /\ Len(Buf) <= window_size
              /\ Len(kept) <= total_turns
              /\ total_turns <= Len(SelectSeq(data, WellFormed))
              /\ (window_size > 0 => total_turns = Len(kept))

\* an import whose last window_size records hold a malformed and a well-formed one
C11_Witness ==
    /\ op.name = "import_conversation"
    /\ window_size = 2
    /\ Len(op.args[1]) >= 2
    /\ \E i, j \in (Len(op.args[1]) - 1)..Len(op.args[1]) :
           ~WellFormed(op.args[1][i]) /\ WellFormed(op.args[1][j])
    /\ Len(Buf) = 1
    /\ total_turns = 1

(* C12: on a buffer that has only seen add_turn calls, the j-th call       *)
(* builds the turn numbered j, so numbers start at 1, are never used twice *)
(* and increase strictly along the retained turns.                         *)
C12_NumberedByCall ==
    fresh => /\ \A j \in 1..Len(added) : added[j].turn_id = j
             /\ \A i, j \in 1..Len(Buf) : i < j => Buf[i].turn_id < Buf[j].turn_id

\* the third call on a window of one: turn 3 retained, 1 and 2 evicted
C12_Witness ==
    /\ fresh
    /\ window_size = 1
    /\ Len(added) = 3
    /\ Buf[1].turn_id = 3

(* C18: every retained turn's user and bot text has at most                *)
(* max_tokens_per_turn whitespace-delimited words.                         *)
C18_RetainedWithinLimit ==
    \A i \in 1..Len(Buf) :
        /\ NumWords(Buf[i].user) <= max_tokens_per_turn
        /\ NumWords(Buf[i].bot) <= max_tokens_per_turn

(* C20: the number of retained turns is min(total_turns, window_size) in   *)
(* every state, so total_turns is never below it, and get_memory_stats     *)
(* reports buffer_full exactly when total_turns >= window_size.            *)
C20_LengthIsMinOfTotal ==
    /\ Len(Buf) = Min(total_turns, window_size)
    /\ total_turns >= Len(Buf)
    /\ get_memory_stats(Self).buffer_full = (total_turns >= window_size)
    /\ op.name = "get_memory_stats" => ret.buffer_full = (total_turns >= window_size)

\* statistics read after an import into a window that it did not fill
C20_Witness ==
    /\ op.name = "get_memory_stats"
    /\ op.args[1] = "import_conversation"
    /\ window_size = 2
    /\ total_turns = 1
    /\ Len(Buf) = 1
    /\ ret.buffer_full = FALSE

\* the keywords of the call just made, and the set they were merged into
ObservedKeywords == extract_keywords(op'.args[1] \o <<" ">> \o op'.args[2])
MergedKeywords == topic_keywords \cup Range(ObservedKeywords)

(* C13: after every update_topic_context the keyword set holds each        *)
(* keyword once and at most 20 of them; a call whose merge leaves more     *)
(* than 20 returns with exactly 15.                                        *)
C13_KeywordSetBounded ==
    /\ [](/\ Cardinality(topic_keywords) <= TopicLimit
          /\ Range(inserted) = topic_keywords
          /\ Len(inserted) = Cardinality(topic_keywords))
    /\ [][(op'.name = "update_topic_context" /\ Cardinality(MergedKeywords) > TopicLimit)
            => Cardinality(topic_keywords') = TopicKeep]_vars

\* a call that trimmed the set
C13_Witness ==
    /\ op.name = "update_topic_context"
    /\ Cardinality(topic_keywords) = TopicKeep
    /\ \E k \in Range(extract_keywords(op.args[1] \o <<" ">> \o op.args[2])) :
           k \notin topic_keywords

(* C14: when a call pushes the set above 20, the keywords kept are exactly *)
(* the 15 most recently added ones, by order of first insertion.           *)
C14_KeepsMostRecent ==
    [][(op'.name = "update_topic_context" /\ Cardinality(MergedKeywords) > TopicLimit)
         => topic_keywords' = Range(LastOf(AppendNew(inserted, ObservedKeywords), TopicKeep))]_vars

(* C15: every keyword a call adds is lowercased and stripped of the        *)
(* leading and trailing punctuation, is longer than 3 characters after     *)
(* the strip and is no stop word; a call adds at most 5 keywords.          *)
C15_KeywordsFiltered ==
    [][op'.name = "update_topic_context"
         => /\ Cardinality(topic_keywords' \ topic_keywords) <= KeywordCap
            /\ \A k \in topic_keywords' \ topic_keywords :
                  /\ Len(k) > MinWordLen
                  /\ k \notin stop_words
                  /\ k = strip(lower(k))]_vars

----------------------------------------------------------------------------
(* The session loop *)

StartsWithSlash(text) == Len(text) > 0 /\ text[1] = "/"

CycleCalls == <<"get_context_prompt", "generate_response", "add_turn",
                "update_topic_context">>

CycleRead == cycle_start # <<>>

EventSet == {events[i] : i \in 1..Len(events)}

\* C16: a cycle for an input that is not a command renders the prompt, generates,
\* adds the turn and observes it, in this order and once each, with the input and
\* the response of the cycle; a cycle for an input starting with "/" does none of
\* the four; /clear only clears the memory and /stats changes nothing.
C16_CycleCalls ==
    /\ (pc = "while" /\ CycleRead /\ ~StartsWithSlash(typed)) =>
          /\ events = CycleCalls
          /\ op = [name |-> "get_context_prompt", args |-> <<typed>>]
          /\ ret = get_context_prompt([Self EXCEPT !.conversation_buffer = cycle_start[1],
                                                   !.total_turns = cycle_start[2]], typed)
          /\ total_turns = cycle_start[2] + 1
          /\ window_size > 0 =>
                /\ conversation_buffer[Len(conversation_buffer)].user = typed
                /\ conversation_buffer[Len(conversation_buffer)].bot = response
          /\ topic_keywords =
                update_topic_context(cycle_start[3], hash_seed, typed, response)
    /\ (pc \in {"add_turn", "observe"}) => ~StartsWithSlash(typed)
    /\ (CycleRead /\ StartsWithSlash(typed)) =>
          /\ EventSet \cap {CycleCalls[i] : i \in 1..Len(CycleCalls)} = {}
          /\ pc \in {"command", "while", "input", "cleanup", "returned"}
    /\ (pc = "while" /\ CycleRead /\ lower(typed) = CmdClear) =>
          /\ events = <<"clear_memory">>
          /\ conversation_buffer = <<>>
          /\ total_turns = 0
          /\ topic_keywords = cycle_start[3]
    /\ (pc = "while" /\ CycleRead /\ lower(typed) \in {CmdStats, CmdHelp, L_unknown}) =>
          /\ MemoryNow = cycle_start
          /\ "clear_memory" \notin EventSet

C16_Witness ==
    /\ pc = "while"
    /\ typed = L_hello
    /\ events = CycleCalls
    /\ total_turns = 2
    /\ ~gen_failed

\* C17: a cycle whose generation failed leaves the buffer, the counter and the
\* keyword set as they were when its input was read, and adds no turn.
C17_FailedGenerationSkipsTurn ==
    (pc = "while" /\ CycleRead /\ gen_failed) =>
        /\ MemoryNow = cycle_start
        /\ "add_turn" \notin EventSet
        /\ "update_topic_context" \notin EventSet

PcRank ==
    IF pc = "command" THEN 3
    ELSE IF pc = "while" THEN 2
    ELSE IF pc = "cleanup" THEN 1
    ELSE 0

\* steps left, at most, before start_chat returns
ExitRank == 2 * PcRank + (IF running THEN 1 ELSE 0)

\* C19: once /exit or the end of the input is read, no input is read, no
\* generation starts, no turn is added or observed and the memory does not change;
\* the loop ends (a step can be taken until start_chat has returned, every step
\* brings the return nearer, and start_chat does return), cleanup has then run exactly once, and the
\* memory is what it was when /exit was read.
C19_ExitTerminates ==
    /\ [](cleanups <= 1)
    /\ []((pc = "returned" /\ exit_read) =>
             /\ cleanups = 1
             /\ MemoryNow = cycle_start)
    /\ []((exit_read /\ pc # "returned") =>
             /\ pc \in {"command", "while", "cleanup"}
             /\ ENABLED (HandleSpecialCommands \/ WhileRunning \/ Cleanup))
    /\ [][exit_read =>
             /\ pc' \notin {"input", "generate", "add_turn", "observe"}
             /\ MemoryNow' = MemoryNow
             /\ typed' = typed
             /\ ExitRank' < ExitRank]_vars
    /\ (exit_read ~> (pc = "returned"))

C19_Witness ==
    /\ pc = "returned"
    /\ exit_read
    /\ lower(typed) = CmdExit
    /\ cleanups = 1
    /\ total_turns = 2

====
